---------------------------- MODULE Spec2Model ----------------------------
(***************************************************************************)
(* pg_uuidv7: the UUID version 7 codec of src/pg_uuidv7.c.                 *)
(*                                                                         *)
(* 64-bit machine words are modelled exactly.  TLC's integers are 32 bits  *)
(* wide, so a uint64_t is a sequence of 8 bytes, most significant first,   *)
(* and the C operators on it (+, -, *, /, <<, >>, &, |) are byte-wise      *)
(* algorithms that wrap modulo 2^64 exactly where the C operators do.      *)
(* The same algorithms at a width of 12 bytes never wrap on the values     *)
(* met here and serve as the mathematical integers of the claims.          *)
(***************************************************************************)
EXTENDS Integers, Sequences, FiniteSets, TLC

(***************************************************************************)
(* Multi-byte unsigned arithmetic, big-endian digit sequences, base 256.   *)
(***************************************************************************)
Zeros(n) == [i \in 1..n |-> 0]

\* a + b modulo 256^Len(a): digit i of the sum, a carry into digit i - 1
RECURSIVE AddFrom(_, _, _, _, _)
AddFrom(a, b, i, carry, acc) ==
  IF i = 0 THEN acc
  ELSE LET t == a[i] + b[i] + carry
       IN  AddFrom(a, b, i - 1, t \div 256, <<t % 256>> \o acc)

AddB(a, b) == AddFrom(a, b, Len(a), 0, <<>>)

\* a - b modulo 256^Len(a), with a borrow from digit i - 1
RECURSIVE SubFrom(_, _, _, _, _)
SubFrom(a, b, i, borrow, acc) ==
  IF i = 0 THEN acc
  ELSE LET t == 256 + a[i] - b[i] - borrow
       IN  SubFrom(a, b, i - 1, IF t < 256 THEN 1 ELSE 0, <<t % 256>> \o acc)

SubB(a, b) == SubFrom(a, b, Len(a), 0, <<>>)

\* a * k modulo 256^Len(a), for 0 <= k <= 2^20
RECURSIVE MulFrom(_, _, _, _, _)
MulFrom(a, k, i, carry, acc) ==
  IF i = 0 THEN acc
  ELSE LET t == a[i] * k + carry
       IN  MulFrom(a, k, i - 1, t \div 256, <<t % 256>> \o acc)

MulSmall(a, k) == MulFrom(a, k, Len(a), 0, <<>>)

\* a / d, truncating, for 0 < d <= 2^20 (a is unsigned): long division
RECURSIVE DivFrom(_, _, _, _, _)
DivFrom(a, d, i, rem, acc) ==
  IF i > Len(a) THEN acc
  ELSE LET t == rem * 256 + a[i]
       IN  DivFrom(a, d, i + 1, t % d, Append(acc, t \div d))

DivSmall(a, d) == DivFrom(a, d, 1, 0, <<>>)

\* a % d for 0 < d <= 2^20 (a is unsigned), as an integer
RECURSIVE ModFrom(_, _, _, _)
ModFrom(a, d, i, rem) ==
  IF i > Len(a) THEN rem
  ELSE ModFrom(a, d, i + 1, (rem * 256 + a[i]) % d)

ModSmall(a, d) == ModFrom(a, d, 1, 0)

\* unsigned a < b, sequences of equal length: also the lexicographic
\* order of byte strings (memcmp)
RECURSIVE LessFrom(_, _, _)
LessFrom(a, b, i) ==
  IF i > Len(a) THEN FALSE
  ELSE IF a[i] # b[i] THEN a[i] < b[i]
  ELSE LessFrom(a, b, i + 1)

LessB(a, b) == LessFrom(a, b, 1)
LeqB(a, b) == a = b \/ LessB(a, b)

\* bitwise and / or of two bytes
RECURSIVE BitAnd(_, _)
BitAnd(x, y) ==
  IF x = 0 \/ y = 0 THEN 0
  ELSE (x % 2) * (y % 2) + 2 * BitAnd(x \div 2, y \div 2)

RECURSIVE BitOr(_, _)
BitOr(x, y) ==
  IF x = 0 THEN y
  ELSE IF y = 0 THEN x
  ELSE (IF x % 2 = 1 \/ y % 2 = 1 THEN 1 ELSE 0)
       + 2 * BitOr(x \div 2, y \div 2)

AndB(a, b) == [i \in 1..Len(a) |-> BitAnd(a[i], b[i])]
OrB(a, b) == [i \in 1..Len(a) |-> BitOr(a[i], b[i])]

Reverse(a) == [i \in 1..Len(a) |-> a[Len(a) + 1 - i]]

(***************************************************************************)
(* uint64_t                                                                *)
(***************************************************************************)
\* the uint64_t with value n, 0 <= n < 2^31
U64(n) == [i \in 1..8 |-> IF i <= 4 THEN 0 ELSE (n \div (256 ^ (8 - i))) % 256]

\* x << k and x >> k on uint64_t, 0 <= k <= 16
Shl64(x, k) == MulSmall(x, 2 ^ k)
Shr64(x, k) == DivSmall(x, 2 ^ k)

\* the uint64_t with value a * 10^12 + b * 10^6 + c (modulo 2^64)
Dec64(a, b, c) ==
  AddB(MulSmall(AddB(MulSmall(U64(a), 1000000), U64(b)), 1000000), U64(c))

\* conversion of a signed 64-bit value to uint64_t and back keeps the bits
\* (two's complement): a bit pattern is negative when its top bit is set
IsNeg(x) == x[1] >= 128


(***************************************************************************)
(* The host.  A uint64_t object lies in memory lowest address first; on a  *)
(* little-endian host that is least significant byte first.  pg_hton64     *)
(* and pg_ntoh64 (port/pg_bswap.h) swap the bytes on a little-endian host  *)
(* and are the identity on a big-endian one.                               *)
(***************************************************************************)
MemImage(x, little) == IF little THEN Reverse(x) ELSE x
FromMem(m, little) == IF little THEN Reverse(m) ELSE m

\* a mutant: no byte swap on a little-endian host
pg_hton64_noswap(x, little) == x

pg_hton64(x, little) == IF little THEN Reverse(x) ELSE x

pg_ntoh64(x, little) == IF little THEN Reverse(x) ELSE x

\* pg_strong_random(buf, len): the bytes the source delivers into buf
pg_strong_random(rnd, len) == SubSeq(rnd.bytes, 1, len)

(***************************************************************************)
(* Constants                                                               *)
(***************************************************************************)
UUID_LEN == 16
POSTGRES_EPOCH_JDATE == 2451545
UNIX_EPOCH_JDATE == 2440588
\* USECS_PER_DAY = 86400000000
USECS_PER_DAY == Dec64(0, 86400, 0)

\* a mutant: the two epochs swapped
EPOCH_DIFF_USECS_swapped ==
  SubB(Zeros(8), MulSmall(USECS_PER_DAY, POSTGRES_EPOCH_JDATE - UNIX_EPOCH_JDATE))

\* ((POSTGRES_EPOCH_JDATE - UNIX_EPOCH_JDATE) * USECS_PER_DAY)
EPOCH_DIFF_USECS ==
  MulSmall(USECS_PER_DAY, POSTGRES_EPOCH_JDATE - UNIX_EPOCH_JDATE)

(***************************************************************************)
(* The function bodies                                                     *)
(***************************************************************************)
\* a mutant: the old high nibble is not cleared
SetVersion_nomask(b) == BitOr(b, 112)

\* (uuid->data[6] & 0x0f) | 0x70
SetVersion(b) == BitOr(BitAnd(b, 15), 112)

\* (uuid->data[8] & 0x3f) | 0x80
SetVariant(b) == BitOr(BitAnd(b, 63), 128)

\* ((uint64_t)ts.tv_sec * 1000) + ((uint64_t)ts.tv_nsec / 1000000)
ClockMillis(tv_sec, tv_nsec) ==
  AddB(MulSmall(tv_sec, 1000), DivSmall(U64(tv_nsec), 1000000))

\* a mutant: a shift of 10 bits
SubMsFraction_shift10(tv_nsec) ==
  AndB(DivSmall(Shl64(U64(tv_nsec), 10), 1000000), U64(4095))

\* a mutant: the fraction is left out
SubMsFraction_zero(tv_nsec) == U64(0)

\* ((((uint64_t)ts.tv_nsec << 12) / 1000000) & 0x0fff)
SubMsFraction(tv_nsec) ==
  AndB(DivSmall(Shl64(U64(tv_nsec), 12), 1000000), U64(4095))

Failed(kind, asked) == [status |-> kind, uuid |-> <<>>, asked |-> asked]
Returned(data, asked) == [status |-> "ok", uuid |-> data, asked |-> asked]

\* a mutant: the random bytes are drawn before the clock is read
GenerateV7_randomFirst(clk, rnd, little) ==
  IF ~rnd.ok THEN Failed("RandomUnavailable", <<"random">>)
  ELSE IF ~clk.ok THEN Failed("ClockUnavailable", <<"random", "clock">>)
  ELSE LET tms == pg_hton64(OrB(OrB(Shl64(ClockMillis(clk.sec, clk.nsec), 16),
                                    U64(28672)),
                                SubMsFraction(clk.nsec)), little)
           data == MemImage(tms, little) \o pg_strong_random(rnd, UUID_LEN - 8)
       IN  Returned([data EXCEPT ![9] = SetVariant(data[9])],
                    <<"random", "clock">>)

\* The body of uuid_generate_v7.  clk and rnd are what clock_gettime and
\* pg_strong_random do when called; ereport(ERROR) leaves the function
\* without a return value.  data[k + 1] is the C uuid->data[k].
GenerateV7(clk, rnd, little) ==
  IF ~clk.ok THEN Failed("ClockUnavailable", <<"clock">>)
  ELSE LET tms == pg_hton64(OrB(OrB(Shl64(ClockMillis(clk.sec, clk.nsec), 16),
                                    U64(28672)),
                                SubMsFraction(clk.nsec)), little)
           \* memcpy(&uuid->data[0], &tms, 8)
           first8 == MemImage(tms, little)
       IN  IF ~rnd.ok
           THEN Failed("RandomUnavailable", <<"clock", "random">>)
           ELSE LET data == first8 \o pg_strong_random(rnd, UUID_LEN - 8)
                IN  Returned([data EXCEPT ![9] = SetVariant(data[9])],
                             <<"clock", "random">>)

\* a mutant: the shift is applied before the byte swap
uuid_v7_to_uint64_shiftFirst(uuid, junk, little) ==
  LET ts0 == FromMem(SubSeq(uuid, 1, 6) \o junk, little)
      ts1 == pg_ntoh64(Shr64(ts0, 16), little)
  IN  SubB(MulSmall(ts1, 1000), EPOCH_DIFF_USECS)

\* a mutant: the result stays on the Unix epoch
uuid_v7_to_uint64_noEpoch(uuid, junk, little) ==
  LET ts0 == FromMem(SubSeq(uuid, 1, 6) \o junk, little)
      ts1 == Shr64(pg_ntoh64(ts0, little), 16)
  IN  MulSmall(ts1, 1000)

\* uuid_v7_to_uint64.  memcpy(&ts, &uuid->data[0], 6) writes the six bytes
\* of ts at the lowest addresses; its other two bytes keep whatever the
\* uninitialised object held (junk).
uuid_v7_to_uint64(uuid, junk, little) ==
  LET ts0 == FromMem(SubSeq(uuid, 1, 6) \o junk, little)
      ts1 == Shr64(pg_ntoh64(ts0, little), 16)
  IN  SubB(MulSmall(ts1, 1000), EPOCH_DIFF_USECS)

\* a mutant: the zero flag is not honoured
uuid_uint64_to_v7_alwaysRandom(ts, zero, rnd, little) ==
  LET tms == pg_hton64(Shl64(DivSmall(AddB(ts, EPOCH_DIFF_USECS), 1000), 16),
                       little)
      first6 == SubSeq(MemImage(tms, little), 1, 6)
  IN  IF ~rnd.ok THEN Failed("RandomUnavailable", <<"random">>)
      ELSE LET data == first6 \o pg_strong_random(rnd, UUID_LEN - 6)
           IN  Returned([data EXCEPT ![7] = SetVersion(data[7]),
                                     ![9] = SetVariant(data[9])],
                        <<"random">>)

\* uuid_uint64_to_v7.  ts is a uint64_t: the sum and the division are
\* unsigned 64-bit operations.
uuid_uint64_to_v7(ts, zero, rnd, little) ==
  LET tms == pg_hton64(Shl64(DivSmall(AddB(ts, EPOCH_DIFF_USECS), 1000), 16),
                       little)
      \* memcpy(&uuid->data[0], &tms, 6)
      first6 == SubSeq(MemImage(tms, little), 1, 6)
      Finish(data, asked) ==
        Returned([data EXCEPT ![7] = SetVersion(data[7]),
                              ![9] = SetVariant(data[9])], asked)
  IN  IF zero THEN Finish(first6 \o Zeros(UUID_LEN - 6), <<>>)
      ELSE IF ~rnd.ok THEN Failed("RandomUnavailable", <<"random">>)
      ELSE Finish(first6 \o pg_strong_random(rnd, UUID_LEN - 6), <<"random">>)

\* if (!PG_ARGISNULL(1)) zero = PG_GETARG_BOOL(1);
ZeroArg(arg) == IF arg = "null" THEN FALSE ELSE arg = "true"

(***************************************************************************)
(* Inputs.  A call is an entry point with its arguments and with what the  *)
(* clock, the random source and the uninitialised stack would deliver if   *)
(* the call consulted them.                                                *)
(***************************************************************************)
\* longest run of uuid_generate_v7 calls followed in SpecSeq
MaxCalls == 2

\* ts + EPOCH_DIFF_USECS as a 64-bit pattern: microseconds on the Unix epoch
UnixMicros ==
  { U64(0), U64(1), U64(999), U64(1000), U64(1001), U64(1999),
    U64(255999), U64(256000),
    Dec64(1700, 0, 0), Dec64(1700, 0, 123), Dec64(1710, 340390, 16999),
    EPOCH_DIFF_USECS, SubB(EPOCH_DIFF_USECS, U64(1)),
    Dec64(281474, 976710, 655999), Dec64(281474, 976710, 656000),
    Dec64(281474, 976710, 657001),
    SubB(U64(0), U64(1)), SubB(U64(0), U64(999)), SubB(U64(0), U64(1000)),
    SubB(U64(0), U64(1001)), SubB(U64(0), Dec64(62, 135596, 800000)) }

INT64_MAX == [i \in 1..8 |-> IF i = 1 THEN 127 ELSE 255]
INT64_MIN == [i \in 1..8 |-> IF i = 1 THEN 128 ELSE 0]

\* Timestamp / TimestampTz arguments: any int64, as its bit pattern
TimestampInputs ==
  { SubB(u, EPOCH_DIFF_USECS) : u \in UnixMicros } \cup {INT64_MAX, INT64_MIN}

ZeroInputs == {"null", "true", "false"}

\* what pg_strong_random delivers: failure, or bytes
RandomFailure == [ok |-> FALSE, bytes |-> <<>>]
RandomBytes ==
  { [i \in 1..10 |-> 0], [i \in 1..10 |-> 255],
    <<165, 60, 90, 195, 1, 2, 3, 4, 5, 6>>,
    <<15, 255, 63, 0, 0, 0, 0, 0, 0, 1>> }
RandomOutcomes == {RandomFailure} \cup { [ok |-> TRUE, bytes |-> t] : t \in RandomBytes }

\* what clock_gettime delivers: failure, or tv_sec (time_t, 64 bits) and
\* tv_nsec in 0 .. 999999999
ClockFailure == [ok |-> FALSE, sec |-> <<>>, nsec |-> 0]
ClockSeconds ==
  { U64(0), U64(1), U64(65), U64(1700000000), Dec64(0, 281474, 976710),
    Dec64(0, 999999, 999999), SubB(U64(0), U64(1)) }
NanosInMilli ==
  {0, 1, 243, 244, 245, 488, 489, 499999, 500000, 999755, 999756, 999999}
MilliInSecond == {0, 1, 255, 256, 535, 536, 655, 656, 999}
ClockNanos == { q * 1000000 + r : q \in MilliInSecond, r \in NanosInMilli }
ClockReadings ==
  { [ok |-> TRUE, sec |-> s, nsec |-> n] : s \in ClockSeconds, n \in ClockNanos }

\* the clock readings of the runs of calls in SpecSeq
SeqClockReadings ==
  { [ok |-> TRUE, sec |-> U64(0), nsec |-> 0],
    [ok |-> TRUE, sec |-> U64(0), nsec |-> 999999],
    [ok |-> TRUE, sec |-> U64(0), nsec |-> 1999998],
    [ok |-> TRUE, sec |-> U64(0), nsec |-> 1999999],
    [ok |-> TRUE, sec |-> U64(65), nsec |-> 535999999],
    [ok |-> TRUE, sec |-> U64(65), nsec |-> 536999999],
    [ok |-> TRUE, sec |-> U64(1700000000), nsec |-> 0],
    [ok |-> TRUE, sec |-> Dec64(0, 281474, 976710), nsec |-> 655999999],
    [ok |-> TRUE, sec |-> Dec64(0, 281474, 976710), nsec |-> 656999999],
    [ok |-> TRUE, sec |-> SubB(U64(0), U64(1)), nsec |-> 999000000] }
SeqRandomOutcomes ==
  { [ok |-> TRUE, bytes |-> [i \in 1..10 |-> 0]],
    [ok |-> TRUE, bytes |-> [i \in 1..10 |-> 255]] }

\* pg_uuid_t arguments: any 16 bytes
UuidPrefixes ==
  { <<0, 0, 0, 0, 0, 0>>, <<0, 0, 0, 0, 0, 1>>, <<255, 255, 255, 255, 255, 255>>,
    <<1, 142, 56, 59, 60, 128>>, <<1, 139, 207, 229, 104, 0>>,
    <<0, 220, 106, 207, 172, 0>>, <<0, 220, 106, 207, 171, 255>>,
    <<128, 0, 0, 0, 0, 0>> }
UuidTails ==
  { [i \in 1..10 |-> 0], [i \in 1..10 |-> 255],
    <<112, 0, 128, 0, 0, 0, 0, 0, 0, 0>>,
    <<122, 188, 181, 60, 90, 195, 1, 2, 3, 4>>,
    <<65, 35, 69, 103, 137, 171, 205, 239, 1, 35>> }
UuidInputs == { p \o t : p \in UuidPrefixes, t \in UuidTails }

\* the two bytes of the local ts of uuid_v7_to_uint64 that memcpy leaves
\* uninitialised
JunkBytes == { <<0, 0>>, <<255, 255>>, <<18, 52>> }

Call(op, ts, zero, uuid, junk, clk, rnd) ==
  [op |-> op, ts |-> ts, zero |-> zero, uuid |-> uuid, junk |-> junk,
   clk |-> clk, rnd |-> rnd]

GenerateCalls(clocks, rnds) ==
  { Call("uuid_generate_v7", <<>>, "null", <<>>, <<>>, c, r) :
      c \in clocks, r \in rnds }

EncodeCalls ==
  { Call(op, ts, z, <<>>, <<>>, ClockFailure, r) :
      op \in {"uuid_timestamptz_to_v7", "uuid_timestamp_to_v7"},
      ts \in TimestampInputs, z \in ZeroInputs, r \in RandomOutcomes }

DecodeCalls ==
  { Call(op, <<>>, "null", u, j, ClockFailure, RandomFailure) :
      op \in {"uuid_v7_to_timestamptz", "uuid_v7_to_timestamp"},
      u \in UuidInputs, j \in JunkBytes }

Calls ==
  GenerateCalls(ClockReadings \cup {ClockFailure},
                {RandomFailure, [ok |-> TRUE, bytes |-> [i \in 1..10 |-> 255]],
                 [ok |-> TRUE, bytes |-> <<165, 60, 90, 195, 1, 2, 3, 4, 5, 6>>]})
  \cup EncodeCalls \cup DecodeCalls

SeqCalls == GenerateCalls(SeqClockReadings, SeqRandomOutcomes)

(***************************************************************************)
(* State                                                                   *)
(***************************************************************************)
VARIABLES
  little,   \* the host is little-endian
  pc,       \* "call": a call is pending; "done": it has ended
  call,     \* the call: entry point, arguments, environment
  status,   \* how the call ended: "ok", or the error raised
  ret,      \* the pg_uuid_t returned, <<>> when none
  retTs,    \* the Timestamp(Tz) returned, <<>> when none
  asked,    \* the external sources the call consulted, in order
  hist      \* the UUIDs uuid_generate_v7 has returned, with the clock read

vars == <<little, pc, call, status, ret, retTs, asked, hist>>

InitWith(calls) ==
  /\ little \in BOOLEAN
  /\ pc = "call"
  /\ call \in calls
  /\ status = "none"
  /\ ret = <<>>
  /\ retTs = <<>>
  /\ asked = <<>>
  /\ hist = <<>>

Init == InitWith(Calls)

InitSeq == InitWith(SeqCalls)

EndEncode(r) ==
  /\ pc' = "done"
  /\ status' = r.status
  /\ ret' = r.uuid
  /\ retTs' = <<>>
  /\ asked' = r.asked

EndDecode(ts) ==
  /\ pc' = "done"
  /\ status' = "ok"
  /\ ret' = <<>>
  /\ retTs' = ts
  /\ asked' = <<>>

uuid_generate_v7 ==
  /\ pc = "call"
  /\ call.op = "uuid_generate_v7"
  /\ LET r == GenerateV7(call.clk, call.rnd, little)
     IN  /\ EndEncode(r)
         /\ hist' = IF r.status = "ok"
                    THEN Append(hist, [clk |-> call.clk, uuid |-> r.uuid])
                    ELSE hist
  /\ UNCHANGED <<little, call>>

uuid_v7_to_timestamptz ==
  /\ pc = "call"
  /\ call.op = "uuid_v7_to_timestamptz"
  /\ EndDecode(uuid_v7_to_uint64(call.uuid, call.junk, little))
  /\ UNCHANGED <<little, call, hist>>

uuid_v7_to_timestamp ==
  /\ pc = "call"
  /\ call.op = "uuid_v7_to_timestamp"
  /\ EndDecode(uuid_v7_to_uint64(call.uuid, call.junk, little))
  /\ UNCHANGED <<little, call, hist>>

uuid_timestamptz_to_v7 ==
  /\ pc = "call"
  /\ call.op = "uuid_timestamptz_to_v7"
  /\ EndEncode(uuid_uint64_to_v7(call.ts, ZeroArg(call.zero), call.rnd, little))
  /\ UNCHANGED <<little, call, hist>>

uuid_timestamp_to_v7 ==
  /\ pc = "call"
  /\ call.op = "uuid_timestamp_to_v7"
  /\ EndEncode(uuid_uint64_to_v7(call.ts, ZeroArg(call.zero), call.rnd, little))
  /\ UNCHANGED <<little, call, hist>>

\* the caller issues another uuid_generate_v7()
NextCall ==
  /\ pc = "done"
  /\ Len(hist) < MaxCalls
  /\ call' \in SeqCalls
  /\ pc' = "call"
  /\ status' = "none"
  /\ ret' = <<>>
  /\ retTs' = <<>>
  /\ asked' = <<>>
  /\ UNCHANGED <<little, hist>>

Next ==
  \/ uuid_generate_v7
  \/ uuid_v7_to_timestamptz
  \/ uuid_v7_to_timestamp
  \/ uuid_timestamptz_to_v7
  \/ uuid_timestamp_to_v7

Spec == Init /\ [][Next]_vars

NextSeq ==
  \/ uuid_generate_v7
  \/ NextCall

SpecSeq == InitSeq /\ [][NextSeq]_vars

(***************************************************************************)
(* Mathematical integers for the claims: 96-bit two's complement, which    *)
(* none of the values below overflows.                                     *)
(***************************************************************************)
\* the value of an int64 bit pattern / of a uint64 bit pattern
Wide(x) == (IF IsNeg(x) THEN [i \in 1..4 |-> 255] ELSE Zeros(4)) \o x
WideU(x) == Zeros(4) \o x
WideN(n) == WideU(U64(n))
WideNeg(w) == SubB(Zeros(12), w)
\* w / d rounded toward zero
WideDivTrunc(w, d) ==
  IF IsNeg(w) THEN WideNeg(DivSmall(WideNeg(w), d)) ELSE DivSmall(w, d)
Low48(w) == SubSeq(w, Len(w) - 5, Len(w))

\* 2^48 milliseconds, in microseconds
FieldLimitMicros == WideU(Dec64(281474, 976710, 656000))

\* ts + EPOCH_DIFF_USECS, the microseconds since the Unix epoch
UnixMicrosOf(ts) == AddB(Wide(ts), WideU(Dec64(946, 684800, 0)))

\* floor((ts + EPOCH_DIFF_USECS) / 1000) lies in 0 .. 2^48 - 1
InRangeTs(ts) ==
  /\ ~IsNeg(UnixMicrosOf(ts))
  /\ LessB(UnixMicrosOf(ts), FieldLimitMicros)

\* the clock reading in milliseconds and in nanoseconds since the Unix epoch
MillisOfClock(c) ==
  AddB(MulSmall(Wide(c.sec), 1000), WideN(c.nsec \div 1000000))
NanosOfClock(c) ==
  AddB(MulSmall(MulSmall(MulSmall(Wide(c.sec), 1000), 1000), 1000),
       WideN(c.nsec))

\* the millisecond count of the clock reading lies in 0 .. 2^48 - 1
InRangeClock(c) ==
  /\ ~IsNeg(MillisOfClock(c))
  /\ LessB(MillisOfClock(c), WideU(<<0, 1, 0, 0, 0, 0, 0, 0>>))

\* ((n mod 1000000) * 4096) / 1000000, as 512 / 125000 to stay in 32 bits
RefFraction(n) == ((n % 1000000) * 512) \div 125000

\* the 12 bits made of the low nibble of byte 6 and of byte 7
Field12(u) == (u[7] % 16) * 256 + u[8]

\* the second clock reading is at least one millisecond after the first
LaterByOneMilli(c1, c2) ==
  ~IsNeg(SubB(SubB(NanosOfClock(c2), NanosOfClock(c1)), WideN(1000000)))

\* uuid_uint64_to_v7(ts, true) on this host
ZeroFilled(ts) == uuid_uint64_to_v7(ts, TRUE, RandomFailure, little).uuid

EncodeOps == {"uuid_timestamptz_to_v7", "uuid_timestamp_to_v7"}
DecodeOps == {"uuid_v7_to_timestamptz", "uuid_v7_to_timestamp"}
Done(ops) == pc = "done" /\ call.op \in ops
ZeroTail == <<112, 0, 128, 0, 0, 0, 0, 0, 0, 0>>

(***************************************************************************)
(* C1: round trip.  For every ts whose Unix millisecond value lies in      *)
(* 0 .. 2^48-1, decoding the UUID that either timestamp-to-UUID entry      *)
(* point returns with zero_fill = true yields                              *)
(* floor((ts + EPOCH)/1000)*1000 - EPOCH, whatever the uninitialised bytes *)
(* of the decoder hold and on either byte order.                           *)
(***************************************************************************)
C1_RoundTrip ==
  (Done(EncodeOps) /\ ZeroArg(call.zero) /\ InRangeTs(call.ts)) =>
    /\ status = "ok"
    /\ \A j \in JunkBytes :
         Wide(uuid_v7_to_uint64(ret, j, little)) =
           SubB(MulSmall(DivSmall(UnixMicrosOf(call.ts), 1000), 1000),
                WideU(Dec64(946, 684800, 0)))

\* a timestamp before 2000 that is not a whole millisecond, round-tripped
C1_Witness ==
  /\ Done(EncodeOps) /\ call.zero = "true" /\ status = "ok"
  /\ call.ts = SubB(U64(1999), EPOCH_DIFF_USECS)
  /\ uuid_v7_to_uint64(ret, <<255, 255>>, little)
       = SubB(U64(1000), EPOCH_DIFF_USECS)

(***************************************************************************)
(* C2: every UUID returned by uuid_generate_v7 or by uuid_uint64_to_v7     *)
(* (either zero flag, any timestamp, any clock reading, any random bytes)  *)
(* has 0111 in the high nibble of byte 6 and 10 in the top bits of byte 8. *)
(***************************************************************************)
C2_VersionVariant ==
  (Done(EncodeOps \cup {"uuid_generate_v7"}) /\ status = "ok") =>
    /\ Len(ret) = UUID_LEN
    /\ ret[7] \div 16 = 7
    /\ ret[9] \div 64 = 2

\* random bytes of all ones, a timestamp that does not fit 48 bits
C2_Witness ==
  /\ Done({"uuid_timestamp_to_v7"}) /\ status = "ok"
  /\ call.zero = "false" /\ call.rnd.bytes = [i \in 1..10 |-> 255]
  /\ call.ts = INT64_MAX
  /\ ret[7] = 127 /\ ret[9] = 191

(***************************************************************************)
(* C3 as stated: in every UUID emitted, the 12 bits after the version are  *)
(* the sub-millisecond fraction of the encoded time or all zero, never     *)
(* random.                                                                 *)
(***************************************************************************)
C3_Field12NeverRandom ==
  /\ (Done({"uuid_generate_v7"}) /\ status = "ok") =>
       Field12(ret) \in {0, RefFraction(call.clk.nsec)}
  /\ (Done(EncodeOps) /\ status = "ok") =>
       Field12(ret) \in
         {0, RefFraction(ModSmall(AddB(call.ts, EPOCH_DIFF_USECS), 1000) * 1000)}

(***************************************************************************)
(* C3 amended: the 12 bits are the sub-millisecond fraction of the clock   *)
(* reading in uuid_generate_v7, all zero in uuid_uint64_to_v7 with         *)
(* zero = true, and with zero = false the low nibble of the first and the  *)
(* whole second byte delivered by the random source.                       *)
(***************************************************************************)
C3_Field12BySource ==
  /\ (Done({"uuid_generate_v7"}) /\ status = "ok") =>
       Field12(ret) = RefFraction(call.clk.nsec)
  /\ (Done(EncodeOps) /\ status = "ok") =>
       Field12(ret) = IF ZeroArg(call.zero) THEN 0
                      ELSE (call.rnd.bytes[1] % 16) * 256 + call.rnd.bytes[2]

\* random bits in the field: 0xfff is the fraction of no microsecond
C3_Witness ==
  /\ Done(EncodeOps) /\ status = "ok" /\ call.zero = "null"
  /\ call.ts = SubB(Dec64(1700, 0, 0), EPOCH_DIFF_USECS)
  /\ Field12(ret) = 4095

(***************************************************************************)
(* C4: decoding never fails and consults nothing; its result is            *)
(* M*1000 - EPOCH as a signed 64-bit value without wrap-around, M being    *)
(* bytes 0..5 read big-endian; bytes 6..15 and the uninitialised bytes of  *)
(* the local do not matter.                                                *)
(***************************************************************************)
C4_DecodeTotal ==
  Done(DecodeOps) =>
    /\ status = "ok" /\ asked = <<>>
    /\ Wide(retTs) =
         SubB(MulSmall(WideU(<<0, 0>> \o SubSeq(call.uuid, 1, 6)), 1000),
              WideU(Dec64(946, 684800, 0)))
    /\ \A t \in UuidTails, j \in JunkBytes :
         uuid_v7_to_uint64(SubSeq(call.uuid, 1, 6) \o t, j, little) = retTs

\* the largest field, a tail that is no version 7, junk of all ones
C4_Witness ==
  /\ Done(DecodeOps) /\ status = "ok"
  /\ call.uuid = [i \in 1..16 |-> 255] /\ call.junk = <<255, 255>>
  /\ ~IsNeg(retTs)

(***************************************************************************)
(* C5 as stated: a UUID that starts 01 8E 38 3B 3C 80 decodes to           *)
(* 1700000000000000 microseconds since the Unix epoch.                     *)
(***************************************************************************)
C5_ScenarioAsStated ==
  (Done(DecodeOps) /\ SubSeq(call.uuid, 1, 6) = <<1, 142, 56, 59, 60, 128>>) =>
    AddB(retTs, Dec64(946, 684800, 0)) = Dec64(1700, 0, 0)

(***************************************************************************)
(* C5 amended: the bytes 01 8E 38 3B 3C 80 are 1,710,340,390,016 ms and    *)
(* decode to 1710340390016000 microseconds since the Unix epoch, whatever  *)
(* the other 10 bytes; 1,700,000,000,000 ms is 01 8B CF E5 68 00, which    *)
(* decodes to 1700000000000000.                                            *)
(***************************************************************************)
C5_Scenario ==
  /\ (Done(DecodeOps) /\ SubSeq(call.uuid, 1, 6) = <<1, 142, 56, 59, 60, 128>>) =>
       /\ retTs = Dec64(763, 655590, 16000)
       /\ AddB(retTs, Dec64(946, 684800, 0)) = Dec64(1710, 340390, 16000)
  /\ (Done(DecodeOps) /\ SubSeq(call.uuid, 1, 6) = <<1, 139, 207, 229, 104, 0>>) =>
       /\ retTs = Dec64(753, 315200, 0)
       /\ AddB(retTs, Dec64(946, 684800, 0)) = Dec64(1700, 0, 0)

C5_Witness ==
  /\ Done(DecodeOps) /\ status = "ok"
  /\ call.uuid = <<1, 142, 56, 59, 60, 128>> \o [i \in 1..10 |-> 255]
  /\ retTs = Dec64(763, 655590, 16000)

(***************************************************************************)
(* C6 as stated: of any two uuid_generate_v7 calls, the later one reading  *)
(* the clock at least one millisecond after the earlier, the earlier UUID  *)
(* is strictly less in byte order, for every clock reading and every       *)
(* output of the random source.                                            *)
(***************************************************************************)
C6_MonotonicAnyClock ==
  \A i \in 1..Len(hist), j \in 1..Len(hist) :
    (i < j /\ LaterByOneMilli(hist[i].clk, hist[j].clk)) =>
      LessB(hist[i].uuid, hist[j].uuid)

(***************************************************************************)
(* C6 amended: the same, for clock readings whose millisecond count since  *)
(* the Unix epoch lies in 0 .. 2^48-1 (the 48-bit field holds it).         *)
(***************************************************************************)
C6_MonotonicInRange ==
  \A i \in 1..Len(hist), j \in 1..Len(hist) :
    (/\ i < j
     /\ InRangeClock(hist[i].clk) /\ InRangeClock(hist[j].clk)
     /\ LaterByOneMilli(hist[i].clk, hist[j].clk)) =>
      LessB(hist[i].uuid, hist[j].uuid)

\* exactly one millisecond apart, across a carry into byte 3 of the field,
\* the earlier UUID with the larger random tail
C6_Witness ==
  /\ Len(hist) = 2
  /\ hist[1].clk = [ok |-> TRUE, sec |-> U64(65), nsec |-> 535999999]
  /\ hist[2].clk = [ok |-> TRUE, sec |-> U64(65), nsec |-> 536999999]
  /\ hist[1].uuid[16] = 255 /\ hist[2].uuid[16] = 0
  /\ LessB(hist[1].uuid, hist[2].uuid)

(***************************************************************************)
(* C7: for every in-range ts the UUID returned with zero_fill = true is    *)
(* the 48-bit millisecond prefix followed by 70 00 80 00 00 00 00 00 00 00 *)
(* (a function of ts alone), and it is less than or equal to every         *)
(* version 7 UUID with that prefix: what zero_fill = false returns for any *)
(* random bytes, and what uuid_generate_v7 returns in that millisecond.    *)
(***************************************************************************)
C7_ZeroFillMinimum ==
  /\ (Done(EncodeOps) /\ InRangeTs(call.ts)) =>
       /\ ZeroArg(call.zero) =>
            /\ status = "ok"
            /\ ret = Low48(DivSmall(UnixMicrosOf(call.ts), 1000)) \o ZeroTail
            /\ \A t \in UuidTails :
                 (t[1] \div 16 = 7 /\ t[3] \div 64 = 2) =>
                   LeqB(ret, SubSeq(ret, 1, 6) \o t)
       /\ status = "ok" =>
            /\ SubSeq(ZeroFilled(call.ts), 1, 6) = SubSeq(ret, 1, 6)
            /\ LeqB(ZeroFilled(call.ts), ret)
  /\ (Done({"uuid_generate_v7"}) /\ status = "ok" /\ InRangeClock(call.clk)) =>
       \A ts \in TimestampInputs \cup {uuid_v7_to_uint64(ret, <<0, 0>>, little)} :
         (InRangeTs(ts)
            /\ DivSmall(UnixMicrosOf(ts), 1000) = MillisOfClock(call.clk)) =>
           /\ SubSeq(ZeroFilled(ts), 1, 6) = SubSeq(ret, 1, 6)
           /\ LeqB(ZeroFilled(ts), ret)

\* zero fill where the random source would have delivered all ones
C7_Witness ==
  /\ Done(EncodeOps) /\ status = "ok" /\ call.zero = "true"
  /\ call.rnd.ok /\ call.rnd.bytes = [i \in 1..10 |-> 255]
  /\ call.ts = SubB(Dec64(1700, 0, 123), EPOCH_DIFF_USECS)
  /\ ret = <<1, 139, 207, 229, 104, 0>> \o ZeroTail

(***************************************************************************)
(* C8: a call fails exactly when an external source it consults fails, and *)
(* a failed call returns nothing.  uuid_generate_v7 raises                 *)
(* ClockUnavailable iff the clock fails, and then does not ask the random  *)
(* source; it raises RandomUnavailable iff the clock succeeds and the      *)
(* random source fails.  uuid_uint64_to_v7 with zero = false raises        *)
(* RandomUnavailable iff the random source fails; with zero = true, and    *)
(* the decoders, consult nothing and never fail.                           *)
(***************************************************************************)
C8_FailureExact ==
  /\ Done({"uuid_generate_v7"}) =>
       /\ status = "ClockUnavailable" <=> ~call.clk.ok
       /\ status = "ClockUnavailable" => asked = <<"clock">>
       /\ status = "RandomUnavailable" <=> (call.clk.ok /\ ~call.rnd.ok)
       /\ status = "ok" <=> (call.clk.ok /\ call.rnd.ok)
  /\ (Done(EncodeOps) /\ ~ZeroArg(call.zero)) =>
       /\ status = "RandomUnavailable" <=> ~call.rnd.ok
       /\ status = "ok" <=> call.rnd.ok
       /\ asked = <<"random">>
  /\ (Done(EncodeOps) /\ ZeroArg(call.zero)) => (status = "ok" /\ asked = <<>>)
  /\ Done(DecodeOps) => (status = "ok" /\ asked = <<>> /\ Len(retTs) = 8)
  /\ (pc = "done" /\ status # "ok") => (ret = <<>> /\ retTs = <<>>)
  /\ (Done(EncodeOps \cup {"uuid_generate_v7"}) /\ status = "ok") =>
       Len(ret) = UUID_LEN

\* both sources down: the clock's failure is the one reported
C8_Witness ==
  /\ Done({"uuid_generate_v7"}) /\ ~call.clk.ok /\ ~call.rnd.ok
  /\ status = "ClockUnavailable" /\ ret = <<>>

(***************************************************************************)
(* C9: for the nanosecond n read, ((n << 12) / 1000000) & 0x0fff on        *)
(* uint64_t equals ((n mod 1000000) * 4096) / 1000000, lies in 0 .. 4095   *)
(* and does not overflow 64 bits; the first 8 bytes of the UUID are the    *)
(* big-endian (millis << 16) | 0x7000 | fraction with                      *)
(* millis = seconds*1000 + n / 1000000.                                    *)
(***************************************************************************)
C9_Fraction ==
  (Done({"uuid_generate_v7"}) /\ call.clk.ok) =>
    LET n == call.clk.nsec
        f == RefFraction(n)
    IN  /\ SubMsFraction(n) = U64(f)
        /\ f \in 0..4095
        /\ WideU(Shl64(U64(n), 12)) = MulSmall(WideN(n), 4096)
        /\ status = "ok" =>
             SubSeq(ret, 1, 8) =
               Low48(MillisOfClock(call.clk)) \o <<112 + f \div 256, f % 256>>

\* the last nanosecond of a second: fraction 4095, millisecond 999
C9_Witness ==
  /\ Done({"uuid_generate_v7"}) /\ status = "ok"
  /\ call.clk.sec = U64(1700000000) /\ call.clk.nsec = 999999999
  /\ SubSeq(ret, 1, 8) = <<1, 139, 207, 229, 107, 231, 127, 255>>

(***************************************************************************)
(* C10 as stated: the 48-bit field of the UUID returned for ts is the low  *)
(* 48 bits of (ts + EPOCH_DIFF_USECS) / 1000, the sum taken as a signed    *)
(* number and the quotient rounded toward zero; it is 0 for                *)
(* -1000 < ts + EPOCH_DIFF_USECS < 0.                                      *)
(***************************************************************************)
C10_MillisTruncTowardZero ==
  (Done(EncodeOps) /\ status = "ok") =>
    SubSeq(ret, 1, 6) = Low48(WideDivTrunc(UnixMicrosOf(call.ts), 1000))

==========================================================================
